---- MODULE Spec2Model ----
(***************************************************************************)
(* State-machine model of bin/demo.py: cgroup hierarchy mode detection     *)
(* (class CgMode) and the life of one DelegatedScope object.               *)
(*                                                                         *)
(* Strings are modelled as sequences of tokens, so that concatenation is   *)
(* sequence concatenation, str.endswith is a suffix test and str.find is a *)
(* sub-sequence search.  "/" and "," are tokens of their own.              *)
(***************************************************************************)
EXTENDS Integers, Sequences, FiniteSets, TLC

VARIABLES
    mounts,      \* the mount table psutil.disk_partitions(all=True) returns
    args,        \* the arguments DelegatedScope(name, slice) was called with
    unit,        \* systemd: scope unit already known to the manager, or ""
    dirs,        \* cgroup filesystem: the directories that exist (resolved paths)
    procs,       \* cgroup filesystem: <<pid, dir>> membership, one dir per hierarchy
    files,       \* cgroup filesystem: <<file, data>> last data written to a control file
    pc,          \* the object: "new", "active" (constructor returned), "failed" (it
                 \* raised), "stopped" (_stop_unit has run on an object that was
                 \* active), "deleted" (__del__ has run on one that had failed)
    attrs,       \* the object: names of the instance attributes assigned so far
    cgmode,      \* the object: self._cgmode
    slice,       \* the object: self._slice
    scope,       \* the object: self._scope
    cgpath,      \* the object: self._cgpath
    subcgroups,  \* the object: self._subcgroups
    rpcLog,      \* every bus operation the object performed, in order
    lastCall,    \* the last method call: arguments, filesystem operations, outcome
    denied       \* cgroup filesystem: <<hierarchy, call>> pairs that fail with EACCES

vars == <<mounts, args, unit, dirs, procs, files, pc, attrs, cgmode, slice, scope,
          cgpath, subcgroups, rpcLog, lastCall, denied>>

-----------------------------------------------------------------------------
(* Bounds of the model *)

MaxMounts == 2      \* longest mount table drawn for detection
MaxPid == 2         \* pids are 1..MaxPid; pid 1 is os.getpid()
MaxStops == 2       \* times _stop_unit is run on one object

-----------------------------------------------------------------------------
(* Strings as token sequences *)

\* str.startswith
StartsWith(s, prefix) ==
    /\ Len(s) >= Len(prefix)
    /\ SubSeq(s, 1, Len(prefix)) = prefix

\* str.endswith
EndsWith(s, suffix) ==
    /\ Len(s) >= Len(suffix)
    /\ SubSeq(s, Len(s) - Len(suffix) + 1, Len(s)) = suffix

\* str.find: the lowest index at which needle occurs in s, -1 when it does not
Find(s, needle) ==
    LET hits == {i \in 1..(Len(s) - Len(needle) + 1) :
                    SubSeq(s, i, i + Len(needle) - 1) = needle}
    IN IF hits = {} THEN -1
       ELSE (CHOOSE i \in hits : \A j \in hits : i <= j) - 1

\* all sequences over S of length at most n
RECURSIVE SeqsUpTo(_, _)
SeqsUpTo(S, n) ==
    IF n = 0 THEN {<<>>}
    ELSE LET shorter == SeqsUpTo(S, n - 1)
         IN shorter \cup {Append(t, x) : t \in {u \in shorter : Len(u) = n - 1}, x \in S}

-----------------------------------------------------------------------------
(* class CgMode *)

LEGACY == 1
HYBRID == 2
UNIFIED == 3

NoExc == [type |-> "", msg |-> ""]
Exc(t, m) == [type |-> t, msg |-> m]

CgRoot == <<"/sys/fs/cgroup">>
MntUnified == CgRoot \o <<"/", "unified">>
MntSystemd == CgRoot \o <<"/", "systemd">>
NameSystemd == <<"name=systemd">>

\* cgroup_mounts.get(mountpoint): the dict comprehension of line 23 keeps, for
\* each mountpoint under /sys/fs/cgroup, the last partition listed; 0 is None.
MountGet(tbl, mountpoint) ==
    LET at == {i \in 1..Len(tbl) : /\ StartsWith(tbl[i].mountpoint, CgRoot)
                                   /\ tbl[i].mountpoint = mountpoint}
    IN IF at = {} THEN 0 ELSE CHOOSE i \in at : \A j \in at : j <= i

\* the lambda named_hierarchy_is(mount, fstype)
NamedHierarchyIs(tbl, i, fstype) ==
    /\ i # 0
    /\ tbl[i].fstype = fstype
    /\ Find(tbl[i].opts, NameSystemd) # -1

\* the object CgMode() leaves behind when it does not raise
UnsetMode == [has_mode |-> FALSE, mode |-> 0]
SetMode(m) == [has_mode |-> TRUE, mode |-> m]

\* CgMode.__init__ with the two tmpfs branches exchanged
CgModeInit_Swapped(tbl) ==
    LET mnt_root == MountGet(tbl, CgRoot)
        mnt_systemd == MountGet(tbl, MntSystemd)
    IN IF mnt_root = 0 THEN [exc |-> NoExc, obj |-> UnsetMode]
       ELSE IF tbl[mnt_root].fstype = "cgroup2"
            THEN [exc |-> NoExc, obj |-> SetMode(UNIFIED)]
       ELSE IF tbl[mnt_root].fstype = "tmpfs" /\ NamedHierarchyIs(tbl, mnt_systemd, "cgroup")
            THEN [exc |-> NoExc, obj |-> SetMode(HYBRID)]
       ELSE IF tbl[mnt_root].fstype = "tmpfs" /\ NamedHierarchyIs(tbl, mnt_systemd, "cgroup2")
            THEN [exc |-> NoExc, obj |-> SetMode(LEGACY)]
       ELSE [exc |-> Exc("ValueError", "Failed to detect cgroup mode."), obj |-> UnsetMode]

\* CgMode.__init__: exc is the exception raised (NoExc: none), obj the object built
CgModeInit(tbl) ==
    LET mnt_root == MountGet(tbl, CgRoot)
        mnt_systemd == MountGet(tbl, MntSystemd)
    IN IF mnt_root = 0 THEN [exc |-> NoExc, obj |-> UnsetMode]
       ELSE IF tbl[mnt_root].fstype = "cgroup2"
            THEN [exc |-> NoExc, obj |-> SetMode(UNIFIED)]
       ELSE IF tbl[mnt_root].fstype = "tmpfs" /\ NamedHierarchyIs(tbl, mnt_systemd, "cgroup")
            THEN [exc |-> NoExc, obj |-> SetMode(LEGACY)]
       ELSE IF tbl[mnt_root].fstype = "tmpfs" /\ NamedHierarchyIs(tbl, mnt_systemd, "cgroup2")
            THEN [exc |-> NoExc, obj |-> SetMode(HYBRID)]
       ELSE [exc |-> Exc("ValueError", "Failed to detect cgroup mode."), obj |-> UnsetMode]

\* CgMode.__eq__ against an int: reading self._mode of an object that never
\* assigned it raises AttributeError
CgModeEq(obj, other) ==
    IF ~obj.has_mode THEN [exc |-> Exc("AttributeError", "_mode"), val |-> FALSE]
    ELSE [exc |-> NoExc, val |-> (obj.mode = other)]

-----------------------------------------------------------------------------
(* The cgroup filesystem, as os.rmdir, os.mkdir and open(..., 'w') see it *)

Pids == 1..MaxPid
SelfPid == 1

\* a path string split at "/" into its non-empty segments; the token
\* "/sys/fs/cgroup" stands for the three segments it names
RECURSIVE SplitFrom(_, _)
SplitFrom(s, cur) ==
    IF s = <<>> THEN (IF cur = <<>> THEN <<>> ELSE <<cur>>)
    ELSE IF Head(s) = "/"
         THEN (IF cur = <<>> THEN <<>> ELSE <<cur>>) \o SplitFrom(Tail(s), <<>>)
         ELSE SplitFrom(Tail(s), Append(cur, Head(s)))

Resolve(path) == SplitFrom(path, <<>>)

Parent(d) == SubSeq(d, 1, Len(d) - 1)

\* the directory and all its ancestors
Ancestors(d) == {SubSeq(d, 1, n) : n \in 1..Len(d)}

\* the root of the cgroup hierarchy a directory lies in: /sys/fs/cgroup itself
\* when it is a cgroup2 mount, /sys/fs/cgroup/<controller> otherwise
HierOf(tbl, d) ==
    LET r == MountGet(tbl, CgRoot)
    IN IF r # 0 /\ tbl[r].fstype = "cgroup2" THEN SubSeq(d, 1, 1) ELSE SubSeq(d, 1, 2)

FsState(d, p, f) == [dirs |-> d, procs |-> p, files |-> f]

HasChildren(fs, d) == \E c \in fs.dirs : Len(c) > Len(d) /\ SubSeq(c, 1, Len(d)) = d
HasProcs(fs, d) == \E m \in fs.procs : m[2] = d

\* rmdir of the directory a path resolves to; noperm: the caller may not
\* remove directories in this hierarchy
RmdirDir(fs, d, noperm) ==
    IF d \notin fs.dirs THEN [fs |-> fs, exc |-> Exc("FileNotFoundError", "rmdir")]
    ELSE IF noperm THEN [fs |-> fs, exc |-> Exc("PermissionError", "rmdir")]
    ELSE IF HasChildren(fs, d) \/ HasProcs(fs, d)
         THEN [fs |-> fs, exc |-> Exc("OSError", "EBUSY")]
    ELSE [fs |-> [fs EXCEPT !.dirs = @ \ {d},
                            !.files = {f \in @ : Parent(f[1]) # d}],
          exc |-> NoExc]

\* os.rmdir(path)
Rmdir(tbl, no, fs, path) ==
    RmdirDir(fs, Resolve(path), <<HierOf(tbl, Resolve(path)), "rmdir">> \in no)

\* mkdir of the directory a path resolves to
MkdirDir(fs, d, noperm) ==
    IF d \in fs.dirs THEN [fs |-> fs, exc |-> Exc("FileExistsError", "mkdir")]
    ELSE IF Parent(d) \notin fs.dirs
         THEN [fs |-> fs, exc |-> Exc("FileNotFoundError", "mkdir")]
    ELSE IF noperm THEN [fs |-> fs, exc |-> Exc("PermissionError", "mkdir")]
    ELSE [fs |-> [fs EXCEPT !.dirs = @ \cup {d}], exc |-> NoExc]

\* os.mkdir(path)
Mkdir(tbl, no, fs, path) ==
    MkdirDir(fs, Resolve(path), <<HierOf(tbl, Resolve(path)), "mkdir">> \in no)

\* the pid a cgroup.procs write names: the kernel parses the decimal string
ParsePid(data) == {p \in Pids : data = <<ToString(p)>>}

\* a process written to cgroup.procs leaves the cgroup it was in, in that hierarchy
MoveProc(tbl, members, p, d, h) ==
    {m \in members : ~(m[1] = p /\ HierOf(tbl, m[2]) = h)} \cup {<<p, d>>}

\* a write of data to the file f of the directory d
WriteTo(tbl, fs, f, d, data, pids, noperm) ==
    IF f = <<>> \/ d \notin fs.dirs
    THEN [fs |-> fs, exc |-> Exc("FileNotFoundError", "open")]
    ELSE IF noperm THEN [fs |-> fs, exc |-> Exc("PermissionError", "open")]
    ELSE IF f[Len(f)] = <<"cgroup.procs">>
         THEN IF pids = {}
              THEN [fs |-> fs, exc |-> Exc("OSError", "EINVAL")]
              ELSE [fs |-> [fs EXCEPT !.procs =
                              MoveProc(tbl, @, CHOOSE q \in pids : TRUE, d, HierOf(tbl, d))],
                    exc |-> NoExc]
    ELSE [fs |-> [fs EXCEPT !.files = {g \in @ : g[1] # f} \cup {<<f, data>>}],
          exc |-> NoExc]

WriteResolved(tbl, no, fs, f, data) ==
    WriteTo(tbl, fs, f, Parent(f), data, ParsePid(data), <<HierOf(tbl, f), "write">> \in no)

\* with open(path, 'w') as f: f.write(data)
WriteFile(tbl, no, fs, path, data) == WriteResolved(tbl, no, fs, Resolve(path), data)

\* one filesystem call of a method: kind, path, data written, and the
\* exception types the surrounding try statement swallows
FsOp(kind, path, data, tolerated) ==
    [kind |-> kind, path |-> path, data |-> data, tolerated |-> tolerated]

ApplyOp(tbl, no, fs, o) ==
    IF o.kind = "rmdir" THEN Rmdir(tbl, no, fs, o.path)
    ELSE IF o.kind = "mkdir" THEN Mkdir(tbl, no, fs, o.path)
    ELSE WriteFile(tbl, no, fs, o.path, o.data)

\* what a method's trace keeps of one call: the call and the exception it raised
Traced(o, exc) == [kind |-> o.kind, path |-> o.path, data |-> o.data, exc |-> exc]

\* the calls of ops[i..] made in order until one raises an exception that is
\* not swallowed
RECURSIVE RunOps(_, _, _, _, _, _)
RECURSIVE RunNext(_, _, _, _, _, _, _)
RunNext(tbl, no, ops, i, trace, o, r) ==
    IF r.exc # NoExc /\ r.exc.type \notin o.tolerated
    THEN [fs |-> r.fs, trace |-> Append(trace, Traced(o, r.exc)), exc |-> r.exc]
    ELSE RunOps(tbl, no, r.fs, ops, i + 1, Append(trace, Traced(o, r.exc)))

RunOps(tbl, no, fs, ops, i, trace) ==
    IF i > Len(ops) THEN [fs |-> fs, trace |-> trace, exc |-> NoExc]
    ELSE RunNext(tbl, no, ops, i, trace, ops[i], ApplyOp(tbl, no, fs, ops[i]))

-----------------------------------------------------------------------------
(* systemd, as the object sees it over D-Bus *)

UnitExists == "org.freedesktop.systemd1.UnitExists"
AccessDenied == "org.freedesktop.DBus.Error.AccessDenied"
NoSuchUnit == "org.freedesktop.systemd1.NoSuchUnit"

Controllers == <<"cpu", "memory", "blkio", "pids">>

\* the cgroup directories systemd realizes for a delegated scope with CPU,
\* memory, block-IO and task accounting: one in a cgroup2 root, else one in
\* the name=systemd hierarchy and one in each controller hierarchy
UnitDirs(tbl, slice_, name) ==
    LET r == MountGet(tbl, CgRoot)
        top == <<CgRoot>>
    IN IF r # 0 /\ tbl[r].fstype = "cgroup2" THEN {top \o <<slice_, name>>}
       ELSE {top \o <<<<h>>, slice_, name>> :
                h \in {"systemd"} \cup {Controllers[c] : c \in 1..Len(Controllers)}}

Under(d, roots) == \E r \in roots : Len(d) >= Len(r) /\ SubSeq(d, 1, Len(r)) = r

\* the filesystem once the unit is started (the sleep of line 116 waits for
\* that): its directories exist and the pid given as "PIDs" is in each
Realize(tbl, fs, slice_, name) ==
    LET ud == UnitDirs(tbl, slice_, name)
    IN [fs EXCEPT !.dirs = @ \cup UNION {Ancestors(d) : d \in ud},
                  !.procs = {m \in @ : m[1] # SelfPid} \cup {<<SelfPid, d>> : d \in ud}]

\* the filesystem once the unit is stopped: its directories are gone
Release(tbl, fs, slice_, name) ==
    LET ud == UnitDirs(tbl, slice_, name)
    IN [dirs |-> {d \in fs.dirs : ~Under(d, ud)},
        procs |-> {m \in fs.procs : ~Under(m[2], ud)},
        files |-> {f \in fs.files : ~Under(f[1], ud)}]

-----------------------------------------------------------------------------
(* class DelegatedScope *)

SliceSuffix == <<".slice">>
ScopeSuffix == <<".scope">>
SysFsCgroup == <<"/sys/fs/cgroup", "/">>
HybridMsg == "Hybrid cgroup mode is not support."
AllAttrs == {"_cgmode", "_slice", "_scope", "_cgpath", "_subcgroups"}

\* line 79: the f-string that builds self._cgpath
CgPath(legacy, slice_, name) ==
    SysFsCgroup \o (IF legacy THEN <<"systemd", "/">> ELSE <<>>) \o slice_ \o <<"/">> \o name

NoObj == [exc |-> NoExc, attrs |-> {}, cgmode |-> UnsetMode, slice |-> <<>>,
          scope |-> <<>>, cgpath |-> <<>>]

\* DelegatedScope.__init__ with self._scope assigned before the checks
DelegatedScopeInit_EarlyScope(tbl, name, slice_) ==
    IF ~EndsWith(slice_, SliceSuffix)
    THEN [NoObj EXCEPT !.exc = Exc("ValueError", "Invalid slice name."),
                       !.attrs = {"_scope"}, !.scope = name]
    ELSE IF ~EndsWith(name, ScopeSuffix)
    THEN [NoObj EXCEPT !.exc = Exc("ValueError", "Invalid scope name."),
                       !.attrs = {"_scope"}, !.scope = name]
    ELSE LET m == CgModeInit(tbl)
             hy == CgModeEq(m.obj, HYBRID)
             le == CgModeEq(m.obj, LEGACY)
         IN IF m.exc # NoExc THEN [NoObj EXCEPT !.exc = m.exc]
            ELSE IF hy.exc # NoExc
                 THEN [NoObj EXCEPT !.exc = hy.exc, !.attrs = {"_cgmode"}, !.cgmode = m.obj]
            ELSE IF hy.val
                 THEN [NoObj EXCEPT !.exc = Exc("ValueError", HybridMsg),
                                    !.attrs = {"_cgmode"}, !.cgmode = m.obj]
            ELSE [exc |-> NoExc, attrs |-> AllAttrs, cgmode |-> m.obj, slice |-> slice_,
                  scope |-> name, cgpath |-> CgPath(le.val, slice_, name)]

\* DelegatedScope.__init__ accepting the hybrid mode
DelegatedScopeInit_HybridOk(tbl, name, slice_) ==
    IF ~EndsWith(slice_, SliceSuffix)
    THEN [NoObj EXCEPT !.exc = Exc("ValueError", "Invalid slice name.")]
    ELSE IF ~EndsWith(name, ScopeSuffix)
    THEN [NoObj EXCEPT !.exc = Exc("ValueError", "Invalid scope name.")]
    ELSE LET m == CgModeInit(tbl)
             hy == CgModeEq(m.obj, HYBRID)
             le == CgModeEq(m.obj, LEGACY)
         IN IF m.exc # NoExc THEN [NoObj EXCEPT !.exc = m.exc]
            ELSE IF hy.exc # NoExc
                 THEN [NoObj EXCEPT !.exc = hy.exc, !.attrs = {"_cgmode"}, !.cgmode = m.obj]
            ELSE [exc |-> NoExc, attrs |-> AllAttrs, cgmode |-> m.obj, slice |-> slice_,
                  scope |-> name, cgpath |-> CgPath(le.val, slice_, name)]

\* DelegatedScope.__init__, lines 67-80: everything before self._start_unit().
\* exc is the exception raised, attrs the attributes assigned by then.
DelegatedScopeInit(tbl, name, slice_) ==
    IF ~EndsWith(slice_, SliceSuffix)
    THEN [NoObj EXCEPT !.exc = Exc("ValueError", "Invalid slice name.")]
    ELSE IF ~EndsWith(name, ScopeSuffix)
    THEN [NoObj EXCEPT !.exc = Exc("ValueError", "Invalid scope name.")]
    ELSE LET m == CgModeInit(tbl)
             hy == CgModeEq(m.obj, HYBRID)
             le == CgModeEq(m.obj, LEGACY)
         IN IF m.exc # NoExc THEN [NoObj EXCEPT !.exc = m.exc]
            ELSE IF hy.exc # NoExc
                 THEN [NoObj EXCEPT !.exc = hy.exc, !.attrs = {"_cgmode"}, !.cgmode = m.obj]
            ELSE IF hy.val
                 THEN [NoObj EXCEPT !.exc = Exc("ValueError", HybridMsg),
                                    !.attrs = {"_cgmode"}, !.cgmode = m.obj]
            ELSE [exc |-> NoExc, attrs |-> AllAttrs, cgmode |-> m.obj, slice |-> slice_,
                  scope |-> name, cgpath |-> CgPath(le.val, slice_, name)]

\* _start_unit with the UnitExists reply raised like any other
StartUnitExc_NoReuse(conn, reply) ==
    IF conn # "ok" THEN Exc("RuntimeError", "Failed to start scope unit")
    ELSE IF reply = "ok" THEN NoExc
    ELSE Exc("DBusException", reply)

\* _start_unit, lines 95-113: the exception it raises, given how the
\* connection attempt and the StartTransientUnit call ended
StartUnitExc(conn, reply) ==
    IF conn # "ok" THEN Exc("RuntimeError", "Failed to start scope unit")
    ELSE IF reply = "ok" THEN NoExc
    ELSE IF reply = UnitExists THEN NoExc
    ELSE Exc("DBusException", reply)

\* the exception types that derive from Exception
ExceptionTypes == {"ConnectionError", "AttributeError", "DBusException", "ValueError",
                   "RuntimeError", "OSError", "FileNotFoundError", "PermissionError",
                   "FileExistsError"}

\* a try statement whose handler logs the exceptions of the types caught: the
\* exception that leaves the statement and the one that is logged
TryLogging(e, caught) ==
    IF e.type \in caught THEN [exc |-> NoExc, logged |-> e] ELSE [exc |-> e, logged |-> NoExc]

\* the body of the try statement of _stop_unit, lines 120-121: whether StopUnit
\* is sent and the exception the body ends with; self._scope is read only
\* once the connection is made
StopUnitBody(hasScope, conn, reply) ==
    IF conn # "ok" THEN [sent |-> FALSE, exc |-> Exc("ConnectionError", "connect")]
    ELSE IF ~hasScope THEN [sent |-> FALSE, exc |-> Exc("AttributeError", "_scope")]
    ELSE IF reply = "ok" THEN [sent |-> TRUE, exc |-> NoExc]
    ELSE [sent |-> TRUE, exc |-> Exc("DBusException", reply)]

\* _stop_unit with a handler for D-Bus errors only, as _start_unit has
StopUnitRun_DBusOnly(hasScope, conn, reply) ==
    LET b == StopUnitBody(hasScope, conn, reply)
        h == TryLogging(b.exc, {"DBusException"})
    IN [sent |-> b.sent, exc |-> h.exc, logged |-> h.logged]

\* _stop_unit, lines 118-123: except Exception logs whatever the body raised
StopUnitRun(hasScope, conn, reply) ==
    LET b == StopUnitBody(hasScope, conn, reply)
        h == TryLogging(b.exc, ExceptionTypes)
    IN [sent |-> b.sent, exc |-> h.exc, logged |-> h.logged]

\* the directories of a sub-group with the controller hierarchies forgotten
SubcgroupDirs_MainOnly(legacy, base, slice_, scope_, name) ==
    <<base \o <<"/">> \o name>>

\* lines 131 and 145: the directories of a sub-group, main hierarchy first
SubcgroupDirs(legacy, base, slice_, scope_, name) ==
    <<base \o <<"/">> \o name>> \o
    (IF legacy
     THEN [c \in 1..Len(Controllers) |->
             SysFsCgroup \o <<Controllers[c], "/">> \o slice_ \o <<"/">> \o scope_
                         \o <<"/">> \o name]
     ELSE <<>>)

\* create_subcgroup passing over a refused mkdir
RECURSIVE RemakeOps_Tolerant(_)
RemakeOps_Tolerant(ds) ==
    IF ds = <<>> THEN <<>>
    ELSE <<FsOp("rmdir", Head(ds), <<>>, {"FileNotFoundError"}),
           FsOp("mkdir", Head(ds), <<>>, {"PermissionError"})>> \o RemakeOps_Tolerant(Tail(ds))

\* create_subcgroup, lines 131-153: rmdir (FileNotFoundError passed over),
\* then mkdir, for each directory in turn
RECURSIVE RemakeOps(_)
RemakeOps(ds) ==
    IF ds = <<>> THEN <<>>
    ELSE <<FsOp("rmdir", Head(ds), <<>>, {"FileNotFoundError"}),
           FsOp("mkdir", Head(ds), <<>>, {})>> \o RemakeOps(Tail(ds))

CreateOps(legacy, base, slice_, scope_, name) ==
    RemakeOps(SubcgroupDirs(legacy, base, slice_, scope_, name))

\* the cgroup.procs files with the controller hierarchies written first
ProcsFiles_MainLast(legacy, base, slice_, scope_, name) ==
    (IF legacy
     THEN [c \in 1..Len(Controllers) |->
             SysFsCgroup \o <<Controllers[c], "/">> \o slice_ \o <<"/">> \o scope_
                         \o <<"/">> \o name \o <<"/", "cgroup.procs">>]
     ELSE <<>>) \o
    <<base \o <<"/">> \o name \o <<"/", "cgroup.procs">>>>

\* the cgroup.procs files with the slice left out of the controller paths
ProcsFiles_NoSlice(legacy, base, slice_, scope_, name) ==
    <<base \o <<"/">> \o name \o <<"/", "cgroup.procs">>>> \o
    (IF legacy
     THEN [c \in 1..Len(Controllers) |->
             SysFsCgroup \o <<Controllers[c], "/">> \o scope_
                         \o <<"/">> \o name \o <<"/", "cgroup.procs">>]
     ELSE <<>>)

\* lines 162 and 168: the cgroup.procs files of a sub-group
ProcsFiles(legacy, base, slice_, scope_, name) ==
    <<base \o <<"/">> \o name \o <<"/", "cgroup.procs">>>> \o
    (IF legacy
     THEN [c \in 1..Len(Controllers) |->
             SysFsCgroup \o <<Controllers[c], "/">> \o slice_ \o <<"/">> \o scope_
                         \o <<"/">> \o name \o <<"/", "cgroup.procs">>]
     ELSE <<>>)

\* str(pid)
StrOfPid(pid) == <<ToString(pid)>>

\* migrate_pid going on to the next cgroup.procs file when a write is refused
MigrateOps_KeepGoing(known, legacy, base, slice_, scope_, name, pid) ==
    LET fsq == ProcsFiles(legacy, base, slice_, scope_, name)
    IN (IF known THEN <<>> ELSE CreateOps(legacy, base, slice_, scope_, name)) \o
       [k \in 1..Len(fsq) |-> FsOp("write", fsq[k], StrOfPid(pid), {"PermissionError"})]

\* migrate_pid calling create_subcgroup whether or not the name is known
MigrateOps_AlwaysCreate(known, legacy, base, slice_, scope_, name, pid) ==
    LET fsq == ProcsFiles(legacy, base, slice_, scope_, name)
    IN CreateOps(legacy, base, slice_, scope_, name) \o
       [k \in 1..Len(fsq) |-> FsOp("write", fsq[k], StrOfPid(pid), {})]

\* migrate_pid without the lazy create_subcgroup
MigrateOps_NoCreate(known, legacy, base, slice_, scope_, name, pid) ==
    LET fsq == ProcsFiles(legacy, base, slice_, scope_, name)
    IN [k \in 1..Len(fsq) |-> FsOp("write", fsq[k], StrOfPid(pid), {})]

\* migrate_pid, lines 158-170: create_subcgroup when the name is not known,
\* then one write of str(pid) per cgroup.procs file
MigrateOps(known, legacy, base, slice_, scope_, name, pid) ==
    LET fsq == ProcsFiles(legacy, base, slice_, scope_, name)
    IN (IF known THEN <<>> ELSE CreateOps(legacy, base, slice_, scope_, name)) \o
       [k \in 1..Len(fsq) |-> FsOp("write", fsq[k], StrOfPid(pid), {})]

SubtreeTokens == <<"+cpu", " ", "+memory", " ", "+pids", " ", "+io">>

\* delegate_resource_control without the mode test
DelegateOps_AnyMode(mode, base) ==
    <<FsOp("write", base \o <<"/", "cgroup.subtree_control">>, SubtreeTokens, {})>>

\* delegate_resource_control, lines 183-187
DelegateOps(mode, base) ==
    IF ~CgModeEq(mode, UNIFIED).val THEN <<>>
    ELSE <<FsOp("write", base \o <<"/", "cgroup.subtree_control">>, SubtreeTokens, {})>>

\* result.append(cgdir) after each mkdir that returned
CreatedPaths(trace) ==
    LET made == {k \in 1..Len(trace) : trace[k].kind = "mkdir" /\ trace[k].exc = NoExc}
        RECURSIVE Pick(_)
        Pick(k) == IF k > Len(trace) THEN <<>>
                   ELSE (IF k \in made THEN <<trace[k].path>> ELSE <<>>) \o Pick(k + 1)
    IN Pick(1)

-----------------------------------------------------------------------------
(* Inputs *)

Mount(mp, t, o) == [mountpoint |-> mp, fstype |-> t, opts |-> o]

MountEntries ==
    [mountpoint : {CgRoot, MntSystemd, MntUnified, <<"/", "proc">>},
     fstype : {"cgroup2", "tmpfs", "cgroup"},
     opts : {<<"rw">>, <<"rw", ",", "name=systemd">>}]

DetectTables == SeqsUpTo(MountEntries, MaxMounts)

UnifiedTable == <<Mount(CgRoot, "cgroup2", <<"rw">>)>>
LegacyTable == <<Mount(CgRoot, "tmpfs", <<"rw">>),
                 Mount(MntSystemd, "cgroup", <<"rw", ",", "name=systemd">>)>>
HybridTable == <<Mount(CgRoot, "tmpfs", <<"rw">>),
                 Mount(MntSystemd, "cgroup2", <<"rw", ",", "name=systemd">>)>>
PlainTable == <<Mount(CgRoot, "tmpfs", <<"rw">>)>>
NoRootTable == <<Mount(<<"/", "proc">>, "cgroup", <<"rw">>)>>
ScopeTables == {UnifiedTable, LegacyTable, HybridTable, PlainTable, NoRootTable}

WorkloadSlice == <<"workload", ".slice">>
WorkloadScope == <<"workload", ".scope">>
SliceNames == {WorkloadSlice, <<"workload">>}
ScopeNames == {WorkloadScope, <<"workload">>}
SubNames == {<<>>, <<"manager">>, <<"workers">>}

\* a method call: its arguments, whether the sub-group was in self._subcgroups
\* on entry, how the bus answered, the filesystem calls made, the exception
\* raised, the exception logged instead of raised, and the value returned
NoCall == [op |-> "", name |-> <<>>, slice |-> <<>>, pid |-> 0, known |-> FALSE,
           conn |-> "", reply |-> "", trace |-> <<>>, exc |-> NoExc, logged |-> NoExc,
           result |-> <<>>]

NoArgs == [name |-> <<>>, slice |-> <<>>]

-----------------------------------------------------------------------------
(* The life of one DelegatedScope *)

Fs == FsState(dirs, procs, files)

IsLegacy == CgModeEq(cgmode, LEGACY).val

Calls == {"rmdir", "mkdir", "write"}

\* the cgroup hierarchies a scope unit has directories in
Hierarchies(tbl) == {HierOf(tbl, d) : d \in UnitDirs(tbl, WorkloadSlice, WorkloadScope)}

\* the number of times _stop_unit has run: it connects to the bus once each
\* time, after the one connection of _start_unit
Teardowns(log) ==
    LET c == Cardinality({k \in 1..Len(log) : log[k] \in {"connect", "connect-failed"}})
    IN IF c = 0 THEN 0 ELSE c - 1

\* the hierarchies in which calls are made to fail: the one of the base path
\* and, in Legacy mode, the third of the five
FaultHierarchies(tbl) ==
    {h \in Hierarchies(tbl) : h[Len(h)] \in {CgRoot, <<"systemd">>, <<"memory">>}}

\* a scope unit of an earlier run may still be loaded, with a sub-group that
\* run left behind
Init ==
    /\ mounts \in ScopeTables
    /\ \E pre \in BOOLEAN, stale \in SUBSET {<<"manager">>} :
         LET ud == UnitDirs(mounts, WorkloadSlice, WorkloadScope)
         IN /\ unit = IF pre THEN WorkloadScope ELSE <<>>
            /\ dirs = IF pre
                      THEN UNION {Ancestors(d) : d \in ud}
                           \cup {Append(d, n) : d \in ud, n \in stale}
                      ELSE {}
    /\ procs = {}
    /\ files = {}
    /\ pc = "new"
    /\ args = NoArgs
    /\ attrs = {}
    /\ cgmode = UnsetMode
    /\ slice = <<>>
    /\ scope = <<>>
    /\ cgpath = <<>>
    /\ subcgroups = {}
    /\ rpcLog = <<>>
    /\ lastCall = NoCall
    /\ denied = {}

\* s = DelegatedScope(name, slice)
Construct(name, slice_, conn, reply) ==
    /\ pc = "new"
    /\ LET o == DelegatedScopeInit(mounts, name, slice_)
           call == [NoCall EXCEPT !.op = "__init__", !.name = name, !.slice = slice_]
       IN IF o.exc # NoExc
          THEN /\ conn = "ok" /\ reply = "ok"
               /\ pc' = "failed"
               /\ attrs' = o.attrs
               /\ cgmode' = o.cgmode
               /\ lastCall' = [call EXCEPT !.exc = o.exc]
               /\ UNCHANGED <<slice, scope, cgpath, subcgroups, rpcLog, unit, dirs,
                              procs, files>>
          ELSE LET e == StartUnitExc(conn, reply)
                   started == conn = "ok" /\ reply = "ok"
                   fs2 == IF started THEN Realize(mounts, Fs, slice_, name) ELSE Fs
               IN /\ reply \in IF conn = "ok"
                               THEN (IF unit = name THEN {UnitExists} ELSE {"ok"})
                                    \cup {AccessDenied}
                               ELSE {"ok"}
                  /\ pc' = IF e = NoExc THEN "active" ELSE "failed"
                  /\ attrs' = AllAttrs
                  /\ cgmode' = o.cgmode
                  /\ slice' = o.slice
                  /\ scope' = o.scope
                  /\ cgpath' = o.cgpath
                  /\ subcgroups' = {}
                  /\ rpcLog' = IF conn = "ok" THEN <<"connect", "StartTransientUnit">>
                               ELSE <<"connect-failed">>
                  /\ lastCall' = [call EXCEPT !.exc = e, !.conn = conn,
                                    !.reply = IF conn = "ok" THEN reply ELSE "",
                                    !.logged = IF conn = "ok" /\ reply = UnitExists
                                               THEN Exc("DBusException", reply) ELSE NoExc]
                  /\ unit' = IF started THEN name ELSE unit
                  /\ dirs' = fs2.dirs
                  /\ procs' = fs2.procs
                  /\ files' = fs2.files
    /\ args' = [name |-> name, slice |-> slice_]
    /\ UNCHANGED <<mounts, denied>>

\* s.create_subcgroup(name)
CreateSubcgroup(name) ==
    /\ pc \in {"active", "stopped"}
    /\ \E ops \in {CreateOps(IsLegacy, cgpath, slice, scope, name)} :
          \E r \in {RunOps(mounts, denied, Fs, ops, 1, <<>>)} :
               /\ dirs' = r.fs.dirs
               /\ procs' = r.fs.procs
               /\ files' = r.fs.files
               /\ subcgroups' = IF r.exc = NoExc THEN subcgroups \cup {name} ELSE subcgroups
               /\ lastCall' = [NoCall EXCEPT !.op = "create_subcgroup", !.name = name,
                                 !.known = name \in subcgroups,
                                 !.trace = r.trace, !.exc = r.exc,
                                 !.result = IF r.exc = NoExc THEN CreatedPaths(r.trace)
                                            ELSE <<>>]
    /\ UNCHANGED <<mounts, args, unit, pc, attrs, cgmode, slice, scope, cgpath, rpcLog, denied>>

\* s.migrate_pid(subcgroup, pid)
MigratePid(subcgroup, pid) ==
    /\ pc \in {"active", "stopped"}
    /\ LET known == subcgroup \in subcgroups
           ncreate == IF known THEN 0
                      ELSE Len(CreateOps(IsLegacy, cgpath, slice, scope, subcgroup))
       IN \E ops \in {MigrateOps(known, IsLegacy, cgpath, slice, scope, subcgroup, pid)} :
          \E r \in {RunOps(mounts, denied, Fs, ops, 1, <<>>)} :
               /\ dirs' = r.fs.dirs
               /\ procs' = r.fs.procs
               /\ files' = r.fs.files
               /\ subcgroups' = IF ~known /\ (r.exc = NoExc \/ Len(r.trace) > ncreate)
                                THEN subcgroups \cup {subcgroup} ELSE subcgroups
               /\ lastCall' = [NoCall EXCEPT !.op = "migrate_pid", !.name = subcgroup,
                                 !.pid = pid, !.known = known, !.trace = r.trace, !.exc = r.exc]
    /\ UNCHANGED <<mounts, args, unit, pc, attrs, cgmode, slice, scope, cgpath, rpcLog, denied>>

\* s.delegate_resource_control()
DelegateResourceControl ==
    /\ pc \in {"active", "stopped"}
    /\ \E ops \in {DelegateOps(cgmode, cgpath)} :
          \E r \in {RunOps(mounts, denied, Fs, ops, 1, <<>>)} :
               /\ dirs' = r.fs.dirs
               /\ procs' = r.fs.procs
               /\ files' = r.fs.files
               /\ lastCall' = [NoCall EXCEPT !.op = "delegate_resource_control",
                                 !.trace = r.trace, !.exc = r.exc]
    /\ UNCHANGED <<mounts, args, unit, pc, attrs, cgmode, slice, scope, cgpath, subcgroups,
                   rpcLog, denied>>

\* s._stop_unit(), called by s.__del__() or by the caller: it runs once for an
\* object whose constructor raised, which nothing refers to afterwards, and
\* any number of times for one that was constructed, which stays usable
StopUnit(conn, reply) ==
    /\ pc \in {"active", "failed", "stopped"}
    /\ Teardowns(rpcLog) < MaxStops
    /\ LET hasScope == "_scope" \in attrs
           r == StopUnitRun(hasScope, conn, reply)
           stopped == r.sent /\ reply = "ok"
           fs2 == IF stopped THEN Release(mounts, Fs, slice, scope) ELSE Fs
       IN /\ reply \in IF conn = "ok" /\ hasScope
                       THEN (IF unit = scope THEN {"ok"} ELSE {NoSuchUnit})
                       ELSE {"ok"}
          /\ rpcLog' = rpcLog \o (IF conn = "ok" THEN <<"connect">> ELSE <<"connect-failed">>)
                              \o (IF r.sent THEN <<"StopUnit">> ELSE <<>>)
          /\ lastCall' = [NoCall EXCEPT !.op = "_stop_unit", !.conn = conn,
                            !.reply = IF r.sent THEN reply ELSE "", !.exc = r.exc,
                            !.logged = r.logged]
          /\ unit' = IF stopped THEN <<>> ELSE unit
          /\ dirs' = fs2.dirs
          /\ procs' = fs2.procs
          /\ files' = fs2.files
    /\ pc' = IF pc = "failed" THEN "deleted" ELSE "stopped"
    /\ UNCHANGED <<mounts, args, attrs, cgmode, slice, scope, cgpath, subcgroups, denied>>

\* the environment: from now on the calls of one kind fail in one hierarchy
\* (the rights on it are withdrawn, or it has run out of a resource)
Deny(h, k) ==
    /\ pc = "active"
    /\ denied = {}
    /\ h \in FaultHierarchies(mounts)
    /\ denied' = {<<h, k>>}
    /\ UNCHANGED <<mounts, args, unit, dirs, procs, files, pc, attrs, cgmode, slice, scope,
                   cgpath, subcgroups, rpcLog, lastCall>>

Conns == {"ok", "fail"}
Replies == {"ok", UnitExists, NoSuchUnit, AccessDenied}

Next ==
    \/ \E name \in ScopeNames, slice_ \in SliceNames, conn \in Conns, reply \in Replies :
          Construct(name, slice_, conn, reply)
    \/ \E name \in SubNames : CreateSubcgroup(name)
    \/ \E name \in SubNames, pid \in Pids : MigratePid(name, pid)
    \/ DelegateResourceControl
    \/ \E conn \in Conns, reply \in Replies : StopUnit(conn, reply)
    \/ \E h \in FaultHierarchies(mounts), k \in Calls : Deny(h, k)

Spec == Init /\ [][Next]_vars

-----------------------------------------------------------------------------
(* Mode detection on its own: CgMode() applied to every small mount table *)

InitDetect ==
    /\ mounts \in DetectTables
    /\ unit = <<>>
    /\ dirs = {}
    /\ procs = {}
    /\ files = {}
    /\ pc = "new"
    /\ args = NoArgs
    /\ attrs = {}
    /\ cgmode = UnsetMode
    /\ slice = <<>>
    /\ scope = <<>>
    /\ cgpath = <<>>
    /\ subcgroups = {}
    /\ rpcLog = <<>>
    /\ lastCall = NoCall
    /\ denied = {}

\* m = CgMode()
Detect ==
    /\ pc = "new"
    /\ LET m == CgModeInit(mounts)
       IN /\ cgmode' = m.obj
          /\ lastCall' = [NoCall EXCEPT !.op = "CgMode", !.exc = m.exc]
          /\ pc' = IF m.exc = NoExc THEN "detected" ELSE "failed"
          /\ attrs' = IF m.exc = NoExc THEN {"_cgmode"} ELSE {}
    /\ UNCHANGED <<mounts, args, unit, dirs, procs, files, slice, scope, cgpath,
                   subcgroups, rpcLog, denied>>

NextDetect == Detect

SpecDetect == InitDetect /\ [][NextDetect]_vars

-----------------------------------------------------------------------------
(* The mount-table patterns of the specification, read off the table itself *)

\* the mounts visible at a mountpoint: the last one listed for it
Visible(tbl, mp) ==
    {i \in 1..Len(tbl) : /\ tbl[i].mountpoint = mp
                         /\ \A j \in (i + 1)..Len(tbl) : tbl[j].mountpoint # mp}

HasOption(opts, o) == \E k \in 1..Len(opts) : opts[k] = o

NamedSystemdMount(tbl, fstype) ==
    \E j \in Visible(tbl, <<"/sys/fs/cgroup", "/", "systemd">>) :
        tbl[j].fstype = fstype /\ HasOption(tbl[j].opts, "name=systemd")

RootIs(tbl, fstype) == \E i \in Visible(tbl, <<"/sys/fs/cgroup">>) : tbl[i].fstype = fstype

PatUnified(tbl) == RootIs(tbl, "cgroup2")
PatLegacy(tbl) == RootIs(tbl, "tmpfs") /\ NamedSystemdMount(tbl, "cgroup")
PatHybrid(tbl) == RootIs(tbl, "tmpfs") /\ NamedSystemdMount(tbl, "cgroup2")

DetectionError == Exc("ValueError", "Failed to detect cgroup mode.")

\* C1: once CgMode() has run, a mount table matching the Unified pattern has
\* given the mode UNIFIED, one matching the Legacy pattern LEGACY, and one
\* matching the Hybrid pattern HYBRID, each without an exception; so no table
\* is classified as two modes, and the table alone decides the mode.
C1_DetectionClassifies ==
    pc # "new" =>
        /\ PatUnified(mounts) => pc = "detected" /\ cgmode = SetMode(3)
        /\ PatLegacy(mounts) => pc = "detected" /\ cgmode = SetMode(1)
        /\ PatHybrid(mounts) => pc = "detected" /\ cgmode = SetMode(2)

C1_Witness ==
    /\ pc = "detected"
    /\ Len(mounts) = 2
    /\ PatLegacy(mounts)
    /\ cgmode = SetMode(1)

\* C2: once CgMode() has run on a mount table that matches none of the three
\* patterns, it has raised the detection error and has not returned a mode
\* object that lacks a mode.
C2_UnmatchedTableFails ==
    (pc # "new" /\ ~PatUnified(mounts) /\ ~PatLegacy(mounts) /\ ~PatHybrid(mounts)) =>
        /\ pc = "failed"
        /\ lastCall.exc = DetectionError
        /\ "_cgmode" \notin attrs

-----------------------------------------------------------------------------
(* Properties of the life of a DelegatedScope *)

ValidNames(a) ==
    /\ a.slice # <<>> /\ a.slice[Len(a.slice)] = ".slice"
    /\ a.name # <<>> /\ a.name[Len(a.name)] = ".scope"

NameErrors == {Exc("ValueError", "Invalid slice name."), Exc("ValueError", "Invalid scope name.")}

UnsupportedModeError == Exc("ValueError", "Hybrid cgroup mode is not support.")

Sent(request) == \E k \in 1..Len(rpcLog) : rpcLog[k] = request

\* C3 as claimed: with a Hybrid mount table the constructor fails with the
\* unsupported-mode error whatever the names are, sends no
\* StartTransientUnit and the scope never becomes active.
C3_HybridAlwaysUnsupported ==
    (PatHybrid(mounts) /\ pc # "new") =>
        /\ pc # "active"
        /\ ~Sent("StartTransientUnit")
        /\ lastCall.op = "__init__" => lastCall.exc = UnsupportedModeError

\* C3 as amended: with a Hybrid mount table the constructor fails whatever the
\* names are, sends no StartTransientUnit and the scope never becomes active;
\* the exception is the unsupported-mode error when both names are valid and
\* the name error when one is not.
C3_HybridAlwaysFails ==
    (PatHybrid(mounts) /\ pc # "new") =>
        /\ pc \in {"failed", "deleted"}
        /\ ~Sent("StartTransientUnit")
        /\ lastCall.op = "__init__" =>
              IF ValidNames(args) THEN lastCall.exc = UnsupportedModeError
              ELSE lastCall.exc \in NameErrors

C3_Witness ==
    /\ PatHybrid(mounts)
    /\ ValidNames(args)
    /\ pc = "failed"
    /\ lastCall.op = "__init__"
    /\ lastCall.exc = UnsupportedModeError

ExpectedPaths(tbl, a, x) ==
    IF PatLegacy(tbl)
    THEN <<<<"/sys/fs/cgroup", "/", "systemd", "/">> \o a.slice \o <<"/">> \o a.name \o <<"/">> \o x,
           <<"/sys/fs/cgroup", "/", "cpu", "/">> \o a.slice \o <<"/">> \o a.name \o <<"/">> \o x,
           <<"/sys/fs/cgroup", "/", "memory", "/">> \o a.slice \o <<"/">> \o a.name \o <<"/">> \o x,
           <<"/sys/fs/cgroup", "/", "blkio", "/">> \o a.slice \o <<"/">> \o a.name \o <<"/">> \o x,
           <<"/sys/fs/cgroup", "/", "pids", "/">> \o a.slice \o <<"/">> \o a.name \o <<"/">> \o x>>
    ELSE <<<<"/sys/fs/cgroup", "/">> \o a.slice \o <<"/">> \o a.name \o <<"/">> \o x>>

\* C5: a create_subcgroup call for a name that is already known, on a
\* filesystem that denies nothing, succeeds, returns the sub-group's path set,
\* leaves every directory of it on disk and the name in the known set.
C5_CreateIdempotent ==
    (lastCall.op = "create_subcgroup" /\ lastCall.known /\ denied = {}) =>
        /\ lastCall.exc = NoExc
        /\ lastCall.result = ExpectedPaths(mounts, args, lastCall.name)
        /\ \A k \in 1..Len(lastCall.result) : Resolve(lastCall.result[k]) \in dirs
        /\ lastCall.name \in subcgroups

\* C6: a create_subcgroup call that succeeded returned the five paths
\* systemd, cpu, memory, blkio, pids in Legacy mode and the one path under
\* /sys/fs/cgroup in Unified mode, and each of them is a directory.
C6_CreateReturnsPaths ==
    (lastCall.op = "create_subcgroup" /\ lastCall.exc = NoExc) =>
        /\ PatLegacy(mounts) \/ PatUnified(mounts)
        /\ Len(lastCall.result) = IF PatLegacy(mounts) THEN 5 ELSE 1
        /\ lastCall.result = ExpectedPaths(mounts, args, lastCall.name)
        /\ \A k \in 1..Len(lastCall.result) : Resolve(lastCall.result[k]) \in dirs

C6_Witness ==
    /\ lastCall.op = "create_subcgroup"
    /\ lastCall.exc = NoExc
    /\ lastCall.name = <<"workers">>
    /\ PatLegacy(mounts)
    /\ Len(lastCall.result) = 5

Writes(t) == {k \in 1..Len(t) : t[k].kind = "write"}

\* the first 2n calls of t are rmdir then mkdir of each of the n paths in
\* order, every mkdir returned and every rmdir returned or found nothing
CreatedFirst(t, paths) ==
    /\ Len(t) >= 2 * Len(paths)
    /\ \A i \in 1..Len(paths) :
          /\ t[2 * i - 1].kind = "rmdir" /\ t[2 * i - 1].path = paths[i]
          /\ t[2 * i - 1].exc.type \in {"", "FileNotFoundError"}
          /\ t[2 * i].kind = "mkdir" /\ t[2 * i].path = paths[i]
          /\ t[2 * i].exc = NoExc

\* C7: a migrate_pid call for a name that was not known makes a cgroup.procs
\* write only after the rmdir and mkdir of every directory of the sub-group
\* have been made and every mkdir has returned; those directories then exist
\* and the name is registered even when the write fails.  When a directory
\* call raised, no write was made.
C7_MigrateCreatesFirst ==
    (lastCall.op = "migrate_pid" /\ ~lastCall.known) =>
        LET t == lastCall.trace
            paths == ExpectedPaths(mounts, args, lastCall.name)
        IN /\ Writes(t) # {} =>
                /\ CreatedFirst(t, paths)
                /\ \A k \in Writes(t) : k > 2 * Len(paths)
                /\ \A i \in 1..Len(paths) : Resolve(paths[i]) \in dirs
                /\ lastCall.name \in subcgroups
           /\ (\E k \in 1..Len(t) : /\ t[k].kind \in {"rmdir", "mkdir"}
                                    /\ t[k].exc = lastCall.exc
                                    /\ lastCall.exc # NoExc)
                 => Writes(t) = {} /\ lastCall.name \notin subcgroups

C7_Witness ==
    /\ lastCall.op = "migrate_pid"
    /\ ~lastCall.known
    /\ PatLegacy(mounts)
    /\ lastCall.name = <<"manager">>
    /\ Cardinality(Writes(lastCall.trace)) = 3
    /\ lastCall.exc.type = "PermissionError"

SubtreeControlOf(a) ==
    <<"/sys/fs/cgroup", "/">> \o a.slice \o <<"/">> \o a.name \o <<"/", "cgroup.subtree_control">>

\* C8: a delegate_resource_control call makes no filesystem call and raises
\* nothing in Legacy mode, and in Unified mode makes exactly one call, the
\* write of "+cpu +memory +pids +io" to <base>/cgroup.subtree_control; no
\* method writes a cgroup.subtree_control file unless the mode is Unified.
C8_DelegateWrites ==
    /\ lastCall.op = "delegate_resource_control" =>
          /\ PatLegacy(mounts) => lastCall.trace = <<>> /\ lastCall.exc = NoExc
          /\ PatUnified(mounts) =>
                /\ Len(lastCall.trace) = 1
                /\ lastCall.trace[1].kind = "write"
                /\ lastCall.trace[1].path = SubtreeControlOf(args)
                /\ lastCall.trace[1].data = <<"+cpu", " ", "+memory", " ", "+pids", " ", "+io">>
                /\ lastCall.exc = lastCall.trace[1].exc
                /\ lastCall.exc = NoExc =>
                      files = {<<Resolve(SubtreeControlOf(args)), lastCall.trace[1].data>>}
    /\ \A k \in Writes(lastCall.trace) :
          lastCall.trace[k].path[Len(lastCall.trace[k].path)] = "cgroup.subtree_control"
              => PatUnified(mounts)
    /\ files # {} => PatUnified(mounts)

C8_Witness ==
    /\ lastCall.op = "delegate_resource_control"
    /\ PatUnified(mounts)
    /\ lastCall.exc = NoExc
    /\ files # {}

\* C9: a create_subcgroup call with the empty name, on a filesystem that
\* denies nothing, is rejected with the argument error before any filesystem
\* call, and the name is not registered.
C9_EmptyNameRejected ==
    (lastCall.op = "create_subcgroup" /\ lastCall.name = <<>> /\ denied = {}) =>
        /\ lastCall.exc.type = "ValueError"
        /\ lastCall.trace = <<>>
        /\ <<>> \notin subcgroups

\* C10: a constructor whose StartTransientUnit was answered with UnitExists
\* returns an active scope with no known sub-group; answered with another
\* D-Bus error it raises that error; and when the bus cannot be reached it
\* raises an exception of another type than a D-Bus error.
C10_StartReplies ==
    (lastCall.op = "__init__" /\ lastCall.conn # "") =>
        /\ lastCall.reply = "org.freedesktop.systemd1.UnitExists" =>
              pc = "active" /\ lastCall.exc = NoExc /\ subcgroups = {}
        /\ lastCall.reply \notin {"", "ok", "org.freedesktop.systemd1.UnitExists"} =>
              pc = "failed" /\ lastCall.exc = Exc("DBusException", lastCall.reply)
        /\ lastCall.conn = "fail" =>
              pc = "failed" /\ lastCall.exc.type \notin {"", "DBusException"}

C10_Witness ==
    /\ lastCall.op = "__init__"
    /\ lastCall.reply = "org.freedesktop.systemd1.UnitExists"
    /\ pc = "active"
    /\ subcgroups = {}
    /\ Sent("StartTransientUnit")

Methods == {"create_subcgroup", "migrate_pid", "delegate_resource_control"}

\* the attributes of the object
Memory == <<attrs, cgmode, slice, scope, cgpath, subcgroups>>

\* C11: _stop_unit never raises, whatever state the object is in (active,
\* constructor failed at any step, stopped before, unit gone, bus unreachable):
\* StopUnit succeeds or the failure is logged; and no run of _stop_unit, the
\* first or a later one, changes an attribute of the object.
C11_TeardownNeverRaises ==
    /\ [](lastCall.op = "_stop_unit" =>
            /\ lastCall.exc = NoExc
            /\ pc \in {"stopped", "deleted"}
            /\ lastCall.logged = NoExc => lastCall.reply = "ok" /\ Sent("StopUnit"))
    /\ [][rpcLog' # rpcLog /\ pc # "new" => Memory' = Memory]_vars

C11_Witness ==
    /\ pc = "stopped"
    /\ lastCall.op = "_stop_unit"
    /\ Teardowns(rpcLog) = 2
    /\ lastCall.reply = "org.freedesktop.systemd1.NoSuchUnit"
    /\ lastCall.logged.type = "DBusException"
    /\ lastCall.exc = NoExc

\* the i-th cgroup.procs write of a trace
NthWrite(t, i) == CHOOSE k \in Writes(t) : Cardinality({j \in Writes(t) : j < k}) = i - 1

\* C12: in Legacy mode a migrate_pid call in which a cgroup.procs write failed
\* raised the exception of that write, made no call after it, and every
\* write before it succeeded and has left the pid in the sub-group's directory
\* of that hierarchy.
C12_FirstWriteErrorSurfaced ==
    (/\ lastCall.op = "migrate_pid"
     /\ PatLegacy(mounts)
     /\ \E k \in Writes(lastCall.trace) : lastCall.trace[k].exc # NoExc) =>
        LET t == lastCall.trace
            paths == ExpectedPaths(mounts, args, lastCall.name)
            k == CHOOSE j \in Writes(t) : t[j].exc # NoExc
            n == Cardinality(Writes(t))
        IN /\ k = Len(t)
           /\ lastCall.exc = t[k].exc
           /\ n <= 5
           /\ \A i \in 1..(n - 1) :
                /\ t[NthWrite(t, i)].exc = NoExc
                /\ <<lastCall.pid, Resolve(paths[i])>> \in procs

C12_Witness ==
    /\ lastCall.op = "migrate_pid"
    /\ lastCall.known
    /\ PatLegacy(mounts)
    /\ lastCall.exc.type = "PermissionError"
    /\ Cardinality(Writes(lastCall.trace)) = 3
    /\ lastCall.pid = 2
    /\ Cardinality({m \in procs : m[1] = 2 /\ m[2][Len(m[2])] = lastCall.name}) = 2

\* C13: while the scope is active every non-empty name in the known set has
\* each of its directories on disk: five in Legacy mode, one in Unified mode.
C13_KnownDirsPresent ==
    pc = "active" =>
        \A g \in subcgroups \ {<<>>} :
            LET paths == ExpectedPaths(mounts, args, g)
            IN \A i \in 1..Len(paths) : Resolve(paths[i]) \in dirs

\* the cgroup.procs files of a sub-group as the specification writes them
ExpectedProcs(tbl, a, x) ==
    LET paths == ExpectedPaths(tbl, a, x)
    IN [i \in 1..Len(paths) |-> paths[i] \o <<"/", "cgroup.procs">>]

\* C14: a migrate_pid call that succeeded wrote the decimal pid to
\* <base>/g/cgroup.procs first and, in Legacy mode, then to the cpu, memory,
\* blkio and pids files of g in that order, and to no other file; the pid is
\* then a member of each of these directories.  The same call made again
\* leaves the membership as it was.
C14_MigrateWritesInOrder ==
    /\ [](lastCall.op = "migrate_pid" /\ lastCall.exc = NoExc =>
            LET t == lastCall.trace
                files_ == ExpectedProcs(mounts, args, lastCall.name)
            IN /\ Cardinality(Writes(t)) = Len(files_)
               /\ Len(files_) = IF PatLegacy(mounts) THEN 5 ELSE 1
               /\ \A i \in 1..Len(files_) :
                    /\ t[NthWrite(t, i)].path = files_[i]
                    /\ t[NthWrite(t, i)].data = <<ToString(lastCall.pid)>>
                    /\ <<lastCall.pid, Parent(Resolve(files_[i]))>> \in procs)
    /\ [][(/\ lastCall.op = "migrate_pid" /\ lastCall.exc = NoExc
           /\ lastCall'.op = "migrate_pid" /\ lastCall'.exc = NoExc
           /\ lastCall'.name = lastCall.name /\ lastCall'.pid = lastCall.pid)
          => procs' = procs]_vars

C14_Witness ==
    /\ lastCall.op = "migrate_pid"
    /\ lastCall.exc = NoExc
    /\ lastCall.known
    /\ PatLegacy(mounts)
    /\ lastCall.name = <<"workers">>
    /\ Cardinality(Writes(lastCall.trace)) = 5
    /\ Cardinality({m \in procs : m[1] = lastCall.pid}) = 5

\* C15: once _stop_unit has stopped the unit, a create_subcgroup, migrate_pid
\* or delegate_resource_control call creates no directory and writes no file.
C15_NoEffectOnceStopped ==
    (pc = "stopped" /\ unit = <<>> /\ lastCall.op \in Methods) =>
        \A k \in 1..Len(lastCall.trace) :
            lastCall.trace[k].kind \in {"mkdir", "write"} => lastCall.trace[k].exc # NoExc

\* C16: the mode is detected before StartTransientUnit is sent;
\* StartTransientUnit has been answered with success or UnitExists before any
\* filesystem call of a method; and StopUnit is sent by _stop_unit only, with
\* no method call after it.
C16_EventsOrdered ==
    /\ Sent("StartTransientUnit") => "_cgmode" \in attrs /\ cgmode.has_mode
    /\ lastCall.op \in Methods =>
          /\ Sent("StartTransientUnit")
          /\ ~Sent("StopUnit")
    /\ Sent("StopUnit") => pc \in {"stopped", "deleted"}

\* C17: for every sub-group name, the directories create_subcgroup makes are
\* the directories whose cgroup.procs files migrate_pid writes; a migrate_pid
\* call that created the sub-group and succeeded wrote into exactly the
\* directories it had made.
C17_CreateAndMigrateSamePaths ==
    /\ pc \in {"active", "stopped"} =>
          \A g \in SubNames :
             {Resolve(d) : d \in {SubcgroupDirs(IsLegacy, cgpath, slice, scope, g)[i] :
                                    i \in 1..Len(SubcgroupDirs(IsLegacy, cgpath, slice, scope, g))}}
             = {Parent(Resolve(f)) : f \in {ProcsFiles(IsLegacy, cgpath, slice, scope, g)[i] :
                                    i \in 1..Len(ProcsFiles(IsLegacy, cgpath, slice, scope, g))}}
    /\ (lastCall.op = "migrate_pid" /\ ~lastCall.known /\ lastCall.exc = NoExc) =>
          LET t == lastCall.trace
          IN {Resolve(t[k].path) : k \in {j \in 1..Len(t) : t[j].kind = "mkdir"}}
             = {Parent(Resolve(t[k].path)) : k \in Writes(t)}

C17_Witness ==
    /\ lastCall.op = "migrate_pid"
    /\ ~lastCall.known
    /\ lastCall.exc = NoExc
    /\ PatLegacy(mounts)
    /\ lastCall.name = <<"workers">>
    /\ Cardinality(Writes(lastCall.trace)) = 5

\* the known set only grows, and a name enters it in a call that made every
\* directory of the sub-group
KnownSetGrows ==
    /\ subcgroups \subseteq subcgroups'
    /\ \A g \in subcgroups' \ subcgroups :
          /\ lastCall'.op \in {"create_subcgroup", "migrate_pid"}
          /\ lastCall'.name = g
          /\ CreatedFirst(lastCall'.trace, ExpectedPaths(mounts, args, g))
          /\ \A k \in 1..Len(lastCall'.trace) :
                lastCall'.trace[k].kind = "mkdir" => lastCall'.trace[k].exc = NoExc

\* a migrate_pid call for a name not in the known set starts the creation
\* sequence from its first directory
CreationRestarts ==
    (lastCall.op = "migrate_pid" /\ ~lastCall.known) =>
        /\ lastCall.trace # <<>>
        /\ lastCall.trace[1].kind = "rmdir"
        /\ lastCall.trace[1].path = ExpectedPaths(mounts, args, lastCall.name)[1]

\* C18 as claimed: after a create_subcgroup call that raised, the name (a
\* non-empty one) is not in the known set and a later migrate_pid runs the
\* creation sequence again; the known set only grows, by names whose every
\* directory was created.
C18_FailedCreateUnregistered ==
    /\ []((lastCall.op = "create_subcgroup" /\ lastCall.exc # NoExc /\ lastCall.name # <<>>) =>
             lastCall.name \notin subcgroups)
    /\ []CreationRestarts
    /\ [][KnownSetGrows]_vars

\* C18 as amended: a create_subcgroup call that raised has left the known set
\* as it was, so that a name that was not known is still not known, and a
\* later migrate_pid for it runs the creation sequence again, while a name
\* that was known stays known; the known set only grows, by names whose every
\* directory was created in the call that registered them.
C18_FailedCreateKeepsKnownSet ==
    /\ []((lastCall.op = "create_subcgroup" /\ lastCall.exc # NoExc) =>
             (lastCall.name \in subcgroups <=> lastCall.known))
    /\ [][(lastCall'.op = "create_subcgroup" /\ lastCall'.exc # NoExc)
             => subcgroups' = subcgroups]_vars
    /\ []CreationRestarts
    /\ [][KnownSetGrows]_vars

C18_Witness ==
    /\ lastCall.op = "create_subcgroup"
    /\ ~lastCall.known
    /\ lastCall.name = <<"workers">>
    /\ lastCall.name \notin subcgroups
    /\ PatLegacy(mounts)
    /\ lastCall.exc.type = "PermissionError"
    /\ Len(lastCall.trace) = 6
    /\ Resolve(ExpectedPaths(mounts, args, lastCall.name)[1]) \in dirs

\* C19: a migrate_pid call for a name in the known set calls neither rmdir nor
\* mkdir, writes only the cgroup.procs files of that sub-group, and leaves
\* the directories, the known set and the membership of every other pid as
\* they were.
C19_MigrateKnownOnlyWrites ==
    /\ []((lastCall.op = "migrate_pid" /\ lastCall.known) =>
            LET t == lastCall.trace
                files_ == ExpectedProcs(mounts, args, lastCall.name)
            IN \A k \in 1..Len(t) :
                  /\ t[k].kind = "write"
                  /\ \E i \in 1..Len(files_) : t[k].path = files_[i])
    /\ [][(lastCall'.op = "migrate_pid" /\ lastCall'.known
           /\ denied' = denied /\ rpcLog' = rpcLog) =>
             /\ dirs' = dirs
             /\ files' = files
             /\ subcgroups' = subcgroups
             /\ \A m \in procs : m[1] # lastCall'.pid => m \in procs']_vars

C19_Witness ==
    /\ lastCall.op = "migrate_pid"
    /\ lastCall.known
    /\ lastCall.exc = NoExc
    /\ lastCall.name = <<"workers">>
    /\ \E m \in procs : /\ m[1] # lastCall.pid
                        /\ m[2][Len(m[2])] = <<"manager">>

====
